---- MODULE Spec2Model ----
(***************************************************************************)
(* Model of the SmartNotes backend (src/main.py): the flow engine          *)
(* (FLOW_PROMPTS, ai_tools, simple_rule_engine) and the recall ranker      *)
(* (memory_recall) over the saved_notes collection.                        *)
(*                                                                         *)
(* A Python str is modelled as a sequence of one-character strings.  Code  *)
(* points outside ASCII are written by name, each standing for ONE         *)
(* character: "ELLIPSIS" (U+2026), "ENDASH" (U+2013), "BULLET" (U+2022),   *)
(* "BOXUR" (U+2514), "BOXH" (U+2500).                                      *)
(***************************************************************************)
EXTENDS Integers, Sequences, FiniteSets, TLC

VARIABLES
    registry,   \* the module-level dict FLOW_PROMPTS
    pc,         \* per caller: position inside ai_tools / simple_rule_engine
    req,        \* per caller: the AIRequest being served
    prompt,     \* per caller: local `prompt` of ai_tools / simple_rule_engine
    lines,      \* per caller: local `lines` of simple_rule_engine
    header,     \* per caller: local `header`
    body,       \* per caller: local `body`
    rule,       \* per caller: which branch of simple_rule_engine returned
    output,     \* per caller: value returned by simple_rule_engine
    response,   \* per caller: what ai_tools answered
    notes,      \* the saved_notes collection, in insertion order
    recall      \* the last answer of save_note / memory_recall

vars == <<registry, pc, req, prompt, lines, header, body, rule, output,
          response, notes, recall>>

-----------------------------------------------------------------------------
(* Bounds of the model *)

\* number of concurrent callers of /api/ai
NCallers == 2
\* largest number of documents saved before recall
MaxNotes == 6
\* bodies of length cut-MaxPad .. cut+MaxPad are tried around a truncation
MaxPad == 2
\* largest number of words in a generated tag body
MaxWords == 3

(* Program constants *)

\* body[:220] of the "short and crisp" rule
CrispCut == 220
\* body[:400] of the "summarize this note" rule
SummaryCut == 400
\* body[:200] of the "mindmap" rule
MindmapCut == 200
\* len(w) > 4 of the tag rule
TagMinLen == 4
\* at most 6 tags
TagMax == 6
\* parts[:8] of the flashcards rule
FlashcardMax == 8
\* [:5] of the mcqs and short answer rules
QuestionMax == 5
\* parts[:6] of the chapters rule
ChapterMax == 6
\* [:5] of memory_recall
TopK == 5
\* [:80] of the recall digest
DigestCut == 80
\* limit=100 of get_documents
FetchLimit == 100

-----------------------------------------------------------------------------
(* Python str operations, computed as CPython computes them *)

Min(S) == CHOOSE x \in S : \A y \in S : x <= y

\* s[:n]
Take(s, n) == SubSeq(s, 1, IF n < Len(s) THEN n ELSE Len(s))

\* str.isspace for the characters of the model
Whitespace == {" ", "\t", "\n", "\r"}

\* the line boundaries str.splitlines recognises, among the model's characters
LineBreaks == {"\n", "\r"}

\* str.lower on one character
LowerChar(c) ==
    CASE c = "A" -> "a" [] c = "B" -> "b" [] c = "C" -> "c" [] c = "D" -> "d"
      [] c = "E" -> "e" [] c = "F" -> "f" [] c = "G" -> "g" [] c = "H" -> "h"
      [] c = "I" -> "i" [] c = "J" -> "j" [] c = "K" -> "k" [] c = "L" -> "l"
      [] c = "M" -> "m" [] c = "N" -> "n" [] c = "O" -> "o" [] c = "P" -> "p"
      [] c = "Q" -> "q" [] c = "R" -> "r" [] c = "S" -> "s" [] c = "T" -> "t"
      [] c = "U" -> "u" [] c = "V" -> "v" [] c = "W" -> "w" [] c = "X" -> "x"
      [] c = "Y" -> "y" [] c = "Z" -> "z" [] OTHER -> c

\* str.lower
Lower(s) == [i \in 1..Len(s) |-> LowerChar(s[i])]

\* s.startswith(sub, i-1): sub occurs in s at (1-based) position i
OccursAt(sub, s, i) ==
    /\ i >= 1
    /\ i + Len(sub) - 1 <= Len(s)
    /\ \A j \in 1..Len(sub) : s[i + j - 1] = sub[j]

\* sub in s
Contains(sub, s) == \E i \in 1..(Len(s) + 1) : OccursAt(sub, s, i)

\* s.strip(chars)
StripChars(s, chars) ==
    LET keep == {i \in 1..Len(s) : s[i] \notin chars}
    IN  IF keep = {} THEN <<>>
        ELSE SubSeq(s, Min(keep), CHOOSE i \in keep : \A k \in keep : k <= i)

\* s.strip()
Strip(s) == StripChars(s, Whitespace)

\* sep.join(parts)
RECURSIVE Join(_, _)
Join(parts, sep) ==
    IF Len(parts) = 0 THEN <<>>
    ELSE IF Len(parts) = 1 THEN parts[1]
    ELSE parts[1] \o sep \o Join(Tail(parts), sep)

\* s.split(sep) for a one-character sep: every segment, empty ones included
RECURSIVE SplitFrom(_, _, _)
SplitFrom(s, sep, i) ==
    LET at == {k \in i..Len(s) : s[k] = sep}
    IN  IF at = {} THEN <<SubSeq(s, i, Len(s))>>
        ELSE <<SubSeq(s, i, Min(at) - 1)>> \o SplitFrom(s, sep, Min(at) + 1)

Split(s, sep) == SplitFrom(s, sep, 1)

\* s.split(): maximal runs of non-whitespace
RECURSIVE WordsFrom(_, _)
WordsFrom(s, i) ==
    LET start == {k \in i..Len(s) : s[k] \notin Whitespace}
    IN  IF start = {} THEN <<>>
        ELSE LET b == Min(start)
                 stop == {k \in b..Len(s) : s[k] \in Whitespace}
                 e == IF stop = {} THEN Len(s) ELSE Min(stop) - 1
             IN  <<SubSeq(s, b, e)>> \o WordsFrom(s, e + 1)

SplitWords(s) == WordsFrom(s, 1)

\* s.splitlines(): "\r\n" is one boundary, and no empty last line is produced
RECURSIVE LinesFrom(_, _)
LinesFrom(s, i) ==
    IF i > Len(s) THEN <<>>
    ELSE LET at == {k \in i..Len(s) : s[k] \in LineBreaks}
         IN  IF at = {} THEN <<SubSeq(s, i, Len(s))>>
             ELSE LET k == Min(at)
                      n == IF s[k] = "\r" /\ k < Len(s) /\ s[k + 1] = "\n"
                           THEN k + 2 ELSE k + 1
                  IN  <<SubSeq(s, i, k - 1)>> \o LinesFrom(s, n)

SplitLines(s) == LinesFrom(s, 1)

\* s.replace(old, new) for non-empty old: leftmost occurrences, never overlapping,
\* and the inserted text is not scanned again
RECURSIVE ReplaceFrom(_, _, _, _)
ReplaceFrom(s, old, new, i) ==
    LET at == {k \in i..(Len(s) - Len(old) + 1) : OccursAt(old, s, k)}
    IN  IF at = {} THEN SubSeq(s, i, Len(s))
        ELSE SubSeq(s, i, Min(at) - 1) \o new
             \o ReplaceFrom(s, old, new, Min(at) + Len(old))

Replace(s, old, new) == ReplaceFrom(s, old, new, 1)

\* s.count(sub): non-overlapping occurrences; len(s) + 1 for the empty sub
RECURSIVE CountFrom(_, _, _)
CountFrom(s, sub, i) ==
    LET at == {k \in i..(Len(s) - Len(sub) + 1) : OccursAt(sub, s, k)}
    IN  IF at = {} THEN 0 ELSE 1 + CountFrom(s, sub, Min(at) + Len(sub))

Count(s, sub) == IF Len(sub) = 0 THEN Len(s) + 1 ELSE CountFrom(s, sub, 1)

\* str(n) for n >= 0
RECURSIVE Str(_)
Str(n) ==
    LET digit == <<"0", "1", "2", "3", "4", "5", "6", "7", "8", "9">>
    IN  IF n < 10 THEN <<digit[n + 1]>>
        ELSE Str(n \div 10) \o <<digit[(n % 10) + 1]>>

\* [f(x) for x in seq]
MapSeq(seq, F(_)) == [i \in 1..Len(seq) |-> F(seq[i])]

-----------------------------------------------------------------------------
(* FLOW_PROMPTS, src/main.py lines 73-90 *)

FLOW_PROMPTS ==
    [f \in {"summarize", "rewrite", "bullet_points", "short_version", "eli5",
            "flashcards", "mcqs", "short_questions", "chapter_summary",
            "mindmap", "smart_tags", "study_plan", "compare_notes",
            "voice_cleanup", "pdf_extract_summary", "memory_recall"} |->
     CASE f = "summarize" ->
            <<"S","u","m","m","a","r","i","z","e"," ","t","h","i","s"," ","n","o","t","e"," ","c","l","e","a",
              "r","l","y"," ","a","n","d"," ","s","i","m","p","l","y",":","\n","{","{","u","s","e","r","_","n",
              "o","t","e","}","}">>
       [] f = "rewrite" ->
            <<"R","e","w","r","i","t","e"," ","a","n","d"," ","i","m","p","r","o","v","e"," ","t","h","i","s",
              " ","t","e","x","t","."," ","M","a","k","e"," ","i","t"," ","c","l","e","a","n",","," ","c","l",
              "e","a","r",","," ","a","n","d"," ","h","i","g","h"," ","q","u","a","l","i","t","y",":","\n","{",
              "{","u","s","e","r","_","n","o","t","e","}","}">>
       [] f = "bullet_points" ->
            <<"T","u","r","n"," ","t","h","i","s"," ","i","n","t","o"," ","c","l","e","a","n"," ","b","u","l",
              "l","e","t"," ","p","o","i","n","t","s",":","\n","{","{","u","s","e","r","_","n","o","t","e","}",
              "}">>
       [] f = "short_version" ->
            <<"C","r","e","a","t","e"," ","a"," ","s","h","o","r","t"," ","a","n","d"," ","c","r","i","s","p",
              " ","v","e","r","s","i","o","n"," ","o","f"," ","t","h","i","s",":","\n","{","{","u","s","e","r",
              "_","n","o","t","e","}","}">>
       [] f = "eli5" ->
            <<"E","x","p","l","a","i","n"," ","t","h","e"," ","f","o","l","l","o","w","i","n","g"," ","n","o",
              "t","e"," ","l","i","k","e"," ","I"," ","a","m"," ","5"," ","y","e","a","r","s"," ","o","l","d",
              ":","\n","{","{","u","s","e","r","_","n","o","t","e","}","}">>
       [] f = "flashcards" ->
            <<"C","r","e","a","t","e"," ","f","l","a","s","h","c","a","r","d","s"," ","(","t","e","r","m"," ",
              ":"," ","d","e","f","i","n","i","t","i","o","n",")"," ","f","r","o","m"," ","t","h","i","s"," ",
              "t","e","x","t",":","\n","{","{","u","s","e","r","_","n","o","t","e","}","}">>
       [] f = "mcqs" ->
            <<"C","r","e","a","t","e"," ","5"," ","M","C","Q","s"," ","w","i","t","h"," ","c","o","r","r","e",
              "c","t"," ","a","n","s","w","e","r","s"," ","f","r","o","m"," ","t","h","i","s"," ","t","e","x",
              "t",":","\n","{","{","u","s","e","r","_","n","o","t","e","}","}">>
       [] f = "short_questions" ->
            <<"C","r","e","a","t","e"," ","5"," ","s","h","o","r","t"," ","a","n","s","w","e","r"," ","q","u",
              "e","s","t","i","o","n","s"," ","w","i","t","h"," ","a","n","s","w","e","r","s"," ","f","r","o",
              "m"," ","t","h","i","s"," ","t","e","x","t",":","\n","{","{","u","s","e","r","_","n","o","t","e",
              "}","}">>
       [] f = "chapter_summary" ->
            <<"S","p","l","i","t"," ","t","h","i","s"," ","n","o","t","e"," ","i","n","t","o"," ","c","h","a",
              "p","t","e","r","s","/","s","e","c","t","i","o","n","s"," ","a","n","d"," ","s","u","m","m","a",
              "r","i","z","e"," ","e","a","c","h"," ","o","n","e",":","\n","{","{","u","s","e","r","_","n","o",
              "t","e","}","}">>
       [] f = "mindmap" ->
            <<"C","o","n","v","e","r","t"," ","t","h","i","s"," ","n","o","t","e"," ","i","n","t","o"," ","a",
              " ","h","i","e","r","a","r","c","h","i","c","a","l"," ","m","i","n","d","m","a","p",":","\n","\n",
              "T","o","p","i","c","\n","\n","S","u","b","t","o","p","i","c","\n","\n","P","o","i","n","t","s","\n",
              "T","e","x","t",":"," ","{","{","u","s","e","r","_","n","o","t","e","}","}">>
       [] f = "smart_tags" ->
            <<"G","e","n","e","r","a","t","e"," ","3","ENDASH","6"," ","t","o","p","i","c"," ","t","a","g","s"," ",
              "f","o","r"," ","t","h","i","s"," ","n","o","t","e",":","\n","{","{","u","s","e","r","_","n","o",
              "t","e","}","}">>
       [] f = "study_plan" ->
            <<"C","r","e","a","t","e"," ","a"," ","7","-","d","a","y"," ","a","n","d"," ","3","0","-","d","a",
              "y"," ","s","t","u","d","y"," ","p","l","a","n"," ","f","o","r"," ","t","h","e"," ","f","o","l",
              "l","o","w","i","n","g"," ","s","y","l","l","a","b","u","s","/","t","o","p","i","c",":","\n","{",
              "{","u","s","e","r","_","s","y","l","l","a","b","u","s","}","}">>
       [] f = "compare_notes" ->
            <<"C","o","m","p","a","r","e"," ","t","h","e","s","e"," ","t","w","o"," ","n","o","t","e","s"," ",
              "a","n","d"," ","l","i","s","t"," ","s","i","m","i","l","a","r","i","t","i","e","s",","," ","d",
              "i","f","f","e","r","e","n","c","e","s",","," ","a","n","d"," ","k","e","y"," ","i","n","s","i",
              "g","h","t","s",":","\n","N","o","t","e"," ","1",":"," ","{","{","n","o","t","e","1","}","}","\n",
              "N","o","t","e"," ","2",":"," ","{","{","n","o","t","e","2","}","}">>
       [] f = "voice_cleanup" ->
            <<"C","l","e","a","n"," ","a","n","d"," ","f","o","r","m","a","t"," ","t","h","i","s"," ","s","p",
              "e","e","c","h"," ","t","r","a","n","s","c","r","i","p","t","."," ","R","e","m","o","v","e"," ",
              "f","i","l","l","e","r"," ","w","o","r","d","s",".","\n","T","r","a","n","s","c","r","i","p","t",
              ":"," ","{","{","v","o","i","c","e","_","t","e","x","t","}","}">>
       [] f = "pdf_extract_summary" ->
            <<"E","x","t","r","a","c","t"," ","m","a","i","n"," ","i","d","e","a","s"," ","a","n","d"," ","i",
              "m","p","o","r","t","a","n","t"," ","p","o","i","n","t","s"," ","f","r","o","m"," ","t","h","i",
              "s"," ","P","D","F"," ","t","e","x","t",":","\n","{","{","p","d","f","_","t","e","x","t","}","}">>
       [] f = "memory_recall" ->
            <<"F","r","o","m"," ","t","h","e"," ","s","a","v","e","d"," ","n","o","t","e","s",","," ","f","i",
              "n","d"," ","t","h","e"," ","n","o","t","e","s"," ","m","o","s","t"," ","r","e","l","a","t","e",
              "d"," ","t","o",":"," ","{","{","q","u","e","r","y","}","}","\n","S","u","m","m","a","r","i","z",
              "e"," ","t","h","e"," ","f","i","n","d","i","n","g","s"," ","i","n"," ","s","i","m","p","l","e",
              " ","l","a","n","g","u","a","g","e",".">>]

-----------------------------------------------------------------------------
(* simple_rule_engine, src/main.py lines 93-157 *)

\* line 99: lines = [l.strip() for l in prompt.splitlines() if l.strip()]
Lines(p) ==
    LET stripped == [i \in 1..Len(SplitLines(p)) |-> Strip(SplitLines(p)[i])]
    IN  SelectSeq(stripped, LAMBDA l : Len(l) > 0)

\* a wrong split: the body is always what follows the first line
Body_tail(ls) == IF Len(ls) > 1 THEN Join(Tail(ls), <<"\n">>) ELSE <<>>

\* line 100: body = "\n".join(lines[1:]) if len(lines) > 1 else (lines[0] if lines else "")
Body(ls) ==
    IF Len(ls) > 1 THEN Join(Tail(ls), <<"\n">>)
    ELSE IF Len(ls) > 0 THEN ls[1] ELSE <<>>

\* a wrong split: the last line is taken as the header
Header_last(ls) == IF Len(ls) > 0 THEN ls[Len(ls)] ELSE <<>>

\* line 101: header = lines[0] if lines else ""
Header(ls) == IF Len(ls) > 0 THEN ls[1] ELSE <<>>

\* a wrong test: the header is not lowercased
HeaderHas_cased(m, h) == Contains(m, h)

\* "<m>" in header.lower()
HeaderHas(m, h) == Contains(m, Lower(h))

\* [s.strip() for s in body.split('.') if s.strip()]
Segments(b) ==
    LET parts == Split(b, ".")
        stripped == [i \in 1..Len(parts) |-> Strip(parts[i])]
    IN  SelectSeq(stripped, LAMBDA s : Len(s) > 0)

\* x or body
OrBody(x, b) == IF Len(x) > 0 THEN x ELSE b

\* lines 104-105
BulletPoints(b) ==
    LET segs == Segments(b)
        bullets == [i \in 1..Len(segs) |-> <<"-"," ">> \o segs[i]]
    IN  OrBody(Join(bullets, <<"\n">>), b)

\* a wrong cut: the marker is appended from 220 characters on
ShortCrisp_ge(b) ==
    Strip(Take(b, CrispCut) \o (IF Len(b) >= CrispCut THEN <<"ELLIPSIS">> ELSE <<>>))

\* line 107
ShortCrisp(b) ==
    Strip(Take(b, CrispCut) \o (IF Len(b) > CrispCut THEN <<"ELLIPSIS">> ELSE <<>>))

\* line 109
Eli5(b) ==
    <<"I","m","a","g","i","n","e"," ","y","o","u"," ","a","r","e"," ","5",":"," ">>
    \o Replace(Replace(b, <<" ","t","h","e","r","e","f","o","r","e">>, <<" ","s","o">>), <<" ","t","h","u","s">>, <<" ","s","o">>)

\* lines 111-112
Flashcards(b) ==
    LET parts == Take(Segments(b), FlashcardMax)
        cards == [i \in 1..Len(parts) |->
                    <<"T","e","r","m"," ">> \o Str(i) \o <<":"," ">> \o parts[i]
                    \o <<"\n","D","e","f","i","n","i","t","i","o","n",":"," ">> \o parts[i]]
    IN  OrBody(Join(cards, <<"\n">>), b)

\* lines 114-123
Mcqs(b) ==
    LET qs == Take(Segments(b), QuestionMax)
        out == [i \in 1..(6 * Len(qs)) |->
                  LET q == ((i - 1) \div 6) + 1
                      k == (i - 1) % 6
                  IN  CASE k = 0 -> <<"Q">> \o Str(q) \o <<"."," ">> \o qs[q] \o <<"?">>
                        [] k = 1 -> <<"A",")"," ","O","p","t","i","o","n"," ","1">>
                        [] k = 2 -> <<"B",")"," ","O","p","t","i","o","n"," ","2">>
                        [] k = 3 -> <<"C",")"," ","O","p","t","i","o","n"," ","3">>
                        [] k = 4 -> <<"D",")"," ","O","p","t","i","o","n"," ","4">>
                        [] k = 5 -> <<"A","n","s","w","e","r",":"," ","A">>]
    IN  OrBody(Join(out, <<"\n">>), b)

\* lines 125-126
ShortQuestions(b) ==
    LET qs == Take(Segments(b), QuestionMax)
        out == [i \in 1..Len(qs) |->
                  <<"Q">> \o Str(i) \o <<"."," ">> \o qs[i] \o <<"?","\n","A","n","s",":"," ",".",".",".">>]
    IN  OrBody(Join(out, <<"\n">>), b)

\* lines 128-129
Chapters(b) ==
    LET parts == Take(Segments(b), ChapterMax)
        out == [i \in 1..Len(parts) |->
                  <<"C","h","a","p","t","e","r"," ">> \o Str(i) \o <<":"," ">> \o parts[i]
                  \o <<"\n","S","u","m","m","a","r","y",":"," ">> \o parts[i]]
    IN  OrBody(Join(out, <<"\n", "\n">>), b)

\* line 131
Mindmap(b) ==
    <<"T","o","p","i","c","\n"," "," ","BOXUR","BOXH"," ","S","u","b","t","o","p","i","c"," ","1","\n"," "," ",
      " "," "," "," ","BOXUR","BOXH"," ","P","o","i","n","t"," ","A","\n"," "," ","BOXUR","BOXH"," ","S","u","b","t",
      "o","p","i","c"," ","2","\n"," "," "," "," "," "," ","BOXUR","BOXH"," ","P","o","i","n","t"," ","B","\n",
      "\n">>
    \o Take(b, MindmapCut)

\* lines 135-140: the loop that keeps the first occurrence of each word and
\* stops once six are kept
RECURSIVE UniqueLoop(_, _)
UniqueLoop(words, unique) ==
    IF Len(words) = 0 THEN unique
    ELSE LET w == Head(words)
             u == IF \E i \in 1..Len(unique) : unique[i] = w
                  THEN unique ELSE Append(unique, w)
         IN  IF Len(u) >= TagMax THEN u ELSE UniqueLoop(Tail(words), u)

\* line 134: words = [w.strip(',.:;!"').lower() for w in body.split() if len(w) > 4]
TagWords(b) ==
    LET long == SelectSeq(SplitWords(b), LAMBDA w : Len(w) > TagMinLen)
    IN  [i \in 1..Len(long) |-> Lower(StripChars(long[i], {",", ".", ":", ";", "!", "\""}))]

\* lines 134-141
TopicTags(b) ==
    LET unique == UniqueLoop(TagWords(b), <<>>)
        joined == Join(Take(unique, TagMax), <<","," ">>)
    IN  IF Len(joined) > 0 THEN joined ELSE <<"g","e","n","e","r","a","l",","," ","s","t","u","d","y">>

\* lines 143-144
StudyPlan ==
    <<"7","-","D","a","y"," ","P","l","a","n",":","\n","-"," ","D","a","y"," ","1",":"," ","R","e","a",
      "d"," ","b","a","s","i","c","s","\n","-"," ","D","a","y"," ","2",":"," ","K","e","y"," ","t","e",
      "r","m","s","\n","-"," ","D","a","y"," ","3",":"," ","P","r","a","c","t","i","c","e","\n","-"," ",
      "D","a","y"," ","4",":"," ","R","e","v","i","e","w","\n","-"," ","D","a","y"," ","5",":"," ","Q",
      "u","i","z","\n","-"," ","D","a","y"," ","6",":"," ","R","e","v","i","s","e","\n","-"," ","D","a",
      "y"," ","7",":"," ","M","o","c","k"," ","t","e","s","t","\n","\n">>
    \o <<"3","0","-","D","a","y"," ","P","l","a","n",":","\n","-"," ","W","e","e","k","s"," ","1","-","3",
         ":"," ","D","e","e","p"," ","d","i","v","e"," ","a","n","d"," ","e","x","e","r","c","i","s","e",
         "s","\n","-"," ","W","e","e","k"," ","4",":"," ","C","o","n","s","o","l","i","d","a","t","i","o",
         "n",","," ","m","o","c","k","s",","," ","r","e","v","i","s","i","o","n">>

\* line 146
CompareNotes == <<"S","i","m","i","l","a","r","i","t","i","e","s",":"," ",".",".",".","\n","D","i","f","f","e","r",
                  "e","n","c","e","s",":"," ",".",".",".","\n","K","e","y"," ","i","n","s","i","g","h","t","s",":",
                  " ",".",".",".">>

\* line 148
VoiceCleanup(b) ==
    Replace(Replace(Replace(b, <<" ","u","h"," ">>, <<" ">>), <<" ","u","m"," ">>, <<" ">>), <<" ","k","i","n","d","a"," ">>, <<" ">>)

\* lines 150-151
MainIdeas(b) ==
    LET segs == Segments(b)
        bullets == [i \in 1..Len(segs) |-> <<"BULLET", " ">> \o segs[i]]
    IN  OrBody(Join(bullets, <<"\n">>), b)

\* line 153
Summarize(b) ==
    <<"S","u","m","m","a","r","y",":"," ">>
    \o Take(b, SummaryCut) \o (IF Len(b) > SummaryCut THEN <<"ELLIPSIS">> ELSE <<>>)

\* line 155
Rewrite(b) ==
    Strip(Replace(Replace(b, <<"v","e","r","y">>, <<"e","x","t","r","e","m","e","l","y">>), <<"g","o","o","d">>, <<"e","x","c","e","l","l","e","n","t">>))

\* lines 103-157: the chain of tests on the header; `rule` names the branch
\* that returned, `out` is the returned text
Dispatch(h, b) ==
    IF HeaderHas(<<"b","u","l","l","e","t"," ","p","o","i","n","t","s">>, h)
        THEN [rule |-> "bullet points", out |-> BulletPoints(b)]
    ELSE IF HeaderHas(<<"s","h","o","r","t"," ","a","n","d"," ","c","r","i","s","p">>, h)
        THEN [rule |-> "short and crisp", out |-> ShortCrisp(b)]
    ELSE IF HeaderHas(<<"e","x","p","l","a","i","n"," ","t","h","e"," ","f","o","l","l","o","w","i","n","g"," ","n","o",
                        "t","e"," ","l","i","k","e"," ","i"," ","a","m"," ","5">>, h)
        THEN [rule |-> "explain like i am 5", out |-> Eli5(b)]
    ELSE IF HeaderHas(<<"f","l","a","s","h","c","a","r","d","s">>, h)
        THEN [rule |-> "flashcards", out |-> Flashcards(b)]
    ELSE IF HeaderHas(<<"m","c","q","s">>, h)
        THEN [rule |-> "mcqs", out |-> Mcqs(b)]
    ELSE IF HeaderHas(<<"s","h","o","r","t"," ","a","n","s","w","e","r"," ","q","u","e","s","t","i","o","n","s">>, h)
        THEN [rule |-> "short answer questions", out |-> ShortQuestions(b)]
    ELSE IF HeaderHas(<<"c","h","a","p","t","e","r","s","/","s","e","c","t","i","o","n","s">>, h)
        THEN [rule |-> "chapters/sections", out |-> Chapters(b)]
    ELSE IF HeaderHas(<<"m","i","n","d","m","a","p">>, h)
        THEN [rule |-> "mindmap", out |-> Mindmap(b)]
    ELSE IF HeaderHas(<<"g","e","n","e","r","a","t","e"," ","3","ENDASH","6"," ","t","o","p","i","c"," ","t","a","g","s">>, h)
        THEN [rule |-> "topic tags", out |-> TopicTags(b)]
    ELSE IF HeaderHas(<<"s","t","u","d","y"," ","p","l","a","n">>, h)
        THEN [rule |-> "study plan", out |-> StudyPlan]
    ELSE IF HeaderHas(<<"c","o","m","p","a","r","e"," ","t","h","e","s","e"," ","t","w","o"," ","n","o","t","e","s">>, h)
        THEN [rule |-> "compare", out |-> CompareNotes]
    ELSE IF HeaderHas(<<"c","l","e","a","n"," ","a","n","d"," ","f","o","r","m","a","t"," ","t","h","i","s"," ","s","p",
                        "e","e","c","h"," ","t","r","a","n","s","c","r","i","p","t">>, h)
        THEN [rule |-> "transcript cleanup", out |-> VoiceCleanup(b)]
    ELSE IF HeaderHas(<<"e","x","t","r","a","c","t"," ","m","a","i","n"," ","i","d","e","a","s">>, h)
        THEN [rule |-> "extract main ideas", out |-> MainIdeas(b)]
    ELSE IF HeaderHas(<<"s","u","m","m","a","r","i","z","e"," ","t","h","i","s"," ","n","o","t","e">>, h)
        THEN [rule |-> "summarize", out |-> Summarize(b)]
    ELSE IF HeaderHas(<<"r","e","w","r","i","t","e"," ","a","n","d"," ","i","m","p","r","o","v","e">>, h)
        THEN [rule |-> "rewrite", out |-> Rewrite(b)]
    ELSE [rule |-> "none", out |-> b]

\* simple_rule_engine(prompt), as one function
simple_rule_engine(p) == Dispatch(Header(Lines(p)), Body(Lines(p)))

-----------------------------------------------------------------------------
(* ai_tools, src/main.py lines 160-176 *)

Callers == 1..NCallers

\* Optional[str] = None (lines 24-30): a field is absent or holds a text
None == [some |-> FALSE, val |-> <<>>]
Some(t) == [some |-> TRUE, val |-> t]

\* req.<slot> or ""
OrEmpty(v) == IF v.some THEN v.val ELSE <<>>

\* class AIRequest (lines 22-30)
AIRequest(f, un, us, n1, n2, vt, pt, q) ==
    [flow |-> f, user_note |-> un, user_syllabus |-> us, note1 |-> n1,
     note2 |-> n2, voice_text |-> vt, pdf_text |-> pt, query |-> q]

NoRequest == AIRequest("", None, None, None, None, None, None, None)

NoResponse == [status |-> 0, detail |-> "", output |-> <<>>]

\* lines 167-173: the seven replacements, each applied to the result of the one before
Interpolate(t, r) ==
    LET p1 == Replace(t, <<"{","{","u","s","e","r","_","n","o","t","e","}","}">>, OrEmpty(r.user_note))
        p2 == Replace(p1, <<"{","{","u","s","e","r","_","s","y","l","l","a","b","u","s","}","}">>, OrEmpty(r.user_syllabus))
        p3 == Replace(p2, <<"{","{","n","o","t","e","1","}","}">>, OrEmpty(r.note1))
        p4 == Replace(p3, <<"{","{","n","o","t","e","2","}","}">>, OrEmpty(r.note2))
        p5 == Replace(p4, <<"{","{","v","o","i","c","e","_","t","e","x","t","}","}">>, OrEmpty(r.voice_text))
        p6 == Replace(p5, <<"{","{","p","d","f","_","t","e","x","t","}","}">>, OrEmpty(r.pdf_text))
    IN  Replace(p6, <<"{","{","q","u","e","r","y","}","}">>, OrEmpty(r.query))

\* the request reaches the handler
Receive(c, r) ==
    /\ pc[c] = "idle"
    /\ req' = [req EXCEPT ![c] = r]
    /\ pc' = [pc EXCEPT ![c] = "check"]
    /\ UNCHANGED <<registry, prompt, lines, header, body, rule, output,
                   response, notes, recall>>

\* a wrong handler: an unknown flow is given an empty template and goes on
Lookup_late(c) ==
    /\ pc[c] = "check"
    /\ prompt' = [prompt EXCEPT ![c] =
                    IF req[c].flow \in DOMAIN registry
                    THEN registry[req[c].flow] ELSE <<>>]
    /\ pc' = [pc EXCEPT ![c] = "interpolate"]
    /\ UNCHANGED <<registry, req, lines, header, body, rule, output,
                   response, notes, recall>>

\* lines 162-165: the membership test, the 400 answer, the template
Lookup(c) ==
    /\ pc[c] = "check"
    /\ IF req[c].flow \notin DOMAIN registry
       THEN /\ response' = [response EXCEPT ![c] =
                              [status |-> 400, detail |-> "Unknown flow",
                               output |-> <<>>]]
            /\ pc' = [pc EXCEPT ![c] = "error"]
            /\ UNCHANGED prompt
       ELSE /\ prompt' = [prompt EXCEPT ![c] = registry[req[c].flow]]
            /\ pc' = [pc EXCEPT ![c] = "interpolate"]
            /\ UNCHANGED response
    /\ UNCHANGED <<registry, req, lines, header, body, rule, output, notes, recall>>

\* a wrong handler: the prompt is built in one buffer shared by all callers
Resolve_shared(c) ==
    /\ pc[c] = "interpolate"
    /\ prompt' = [k \in Callers |-> Interpolate(prompt[c], req[c])]
    /\ pc' = [pc EXCEPT ![c] = "split"]
    /\ UNCHANGED <<registry, req, lines, header, body, rule, output,
                   response, notes, recall>>

\* lines 167-173
Resolve(c) ==
    /\ pc[c] = "interpolate"
    /\ prompt' = [prompt EXCEPT ![c] = Interpolate(prompt[c], req[c])]
    /\ pc' = [pc EXCEPT ![c] = "split"]
    /\ UNCHANGED <<registry, req, lines, header, body, rule, output,
                   response, notes, recall>>

\* lines 99-101 of simple_rule_engine, called at line 175
SplitPrompt(c) ==
    /\ pc[c] = "split"
    /\ lines' = [lines EXCEPT ![c] = Lines(prompt[c])]
    /\ body' = [body EXCEPT ![c] = Body(Lines(prompt[c]))]
    /\ header' = [header EXCEPT ![c] = Header(Lines(prompt[c]))]
    /\ pc' = [pc EXCEPT ![c] = "dispatch"]
    /\ UNCHANGED <<registry, req, prompt, rule, output, response, notes, recall>>

\* lines 103-157 of simple_rule_engine
ApplyRule(c) ==
    /\ pc[c] = "dispatch"
    /\ rule' = [rule EXCEPT ![c] = Dispatch(header[c], body[c]).rule]
    /\ output' = [output EXCEPT ![c] = Dispatch(header[c], body[c]).out]
    /\ pc' = [pc EXCEPT ![c] = "return"]
    /\ UNCHANGED <<registry, req, prompt, lines, header, body, response,
                   notes, recall>>

\* line 176: return {"output": output}
Respond(c) ==
    /\ pc[c] = "return"
    /\ response' = [response EXCEPT ![c] =
                      [status |-> 200, detail |-> "", output |-> output[c]]]
    /\ pc' = [pc EXCEPT ![c] = "done"]
    /\ UNCHANGED <<registry, req, prompt, lines, header, body, rule, output,
                   notes, recall>>

NoRecall == [op |-> "none", status |-> 0, query |-> <<>>, id |-> 0,
             scores |-> <<>>, top |-> <<>>, summary |-> <<>>, matches |-> <<>>]

\* the state every specification starts from, but for the inputs
Fresh ==
    /\ registry = FLOW_PROMPTS
    /\ req = [c \in Callers |-> NoRequest]
    /\ lines = [c \in Callers |-> <<>>]
    /\ header = [c \in Callers |-> <<>>]
    /\ body = [c \in Callers |-> <<>>]
    /\ rule = [c \in Callers |-> ""]
    /\ output = [c \in Callers |-> <<>>]
    /\ response = [c \in Callers |-> NoResponse]
    /\ notes = <<>>
    /\ recall = NoRecall

-----------------------------------------------------------------------------
(* Inputs of the flow-execution endpoint *)

\* flow ids tried: the registry's keys and three that are not keys
FlowsTried == DOMAIN FLOW_PROMPTS \cup {"", "Summarize", "translate"}

UserNotes ==
    {None,
     Some(<<"M","a","k","e"," ","f","l","a","s","h","c","a","r","d","s","."," ","C","a","t","s"," ","a","r",
            "e"," ","v","e","r","y"," ","g","o","o","d",","," ","t","h","u","s"," ","p","o","p","u","l","a",
            "r">>),
     Some(<<"{","{","q","u","e","r","y","}","}">>),
     Some(<<"s","e","e"," ","{","{","n","o","t","e","2","}","}"," ","a","n","d"," ","{","{","u","s","e","r",
            "_","n","o","t","e","}","}">>)}

Notes1 == {None, Some(<<"{","{","n","o","t","e","2","}","}">>)}

Notes2 == {None, Some(<<"{","{","n","o","t","e","1","}","}">>)}

\* user_syllabus, voice_text and pdf_text: all three absent, or all three given
OtherSlots ==
    {<<None, None, None>>,
     <<Some(<<"A","l","g","e","b","r","a">>), Some(<<"s","o"," ","u","h"," ","{","{","q","u","e","r","y","}","}"," ","u","m"," ","o","k">>),
       Some(<<"I","d","e","a"," ","o","n","e","."," ","{","{","u","s","e","r","_","n","o","t","e","}","}">>)>>}

Queries ==
    {None, Some(<<"c","a","t","s">>), Some(<<"B","u","l","l","e","t"," ","P","o","i","n","t","s">>), Some(<<"{","{","u","s","e","r","_","n","o","t","e","}","}">>)}

FlowRequests ==
    {AIRequest(f, un, o[1], n1, n2, o[2], o[3], q) :
        f \in FlowsTried, un \in UserNotes, n1 \in Notes1, n2 \in Notes2,
        o \in OtherSlots, q \in Queries}

\* requests of the concurrent callers
ConcurrentRequests ==
    {AIRequest(f, Some(<<"O","n","e","."," ","T","w","o">>), None, None, None, None, None, q) :
        f \in {"bullet_points", "memory_recall", "translate"},
        q \in {None, Some(<<"f","l","a","s","h","c","a","r","d","s">>)}}

\* one caller of /api/ai, every request of FlowRequests
InitFlow == Fresh /\ pc = [c \in Callers |-> "idle"] /\ prompt = [c \in Callers |-> <<>>]

NextFlow ==
    \/ \E r \in FlowRequests : Receive(1, r)
    \/ Lookup(1)
    \/ Resolve(1)
    \/ SplitPrompt(1)
    \/ ApplyRule(1)
    \/ Respond(1)

SpecFlow == InitFlow /\ [][NextFlow]_vars

\* NCallers callers of /api/ai, their steps interleaved
NextConcurrent ==
    \E c \in Callers :
        \/ \E r \in ConcurrentRequests : Receive(c, r)
        \/ Lookup(c)
        \/ Resolve(c)
        \/ SplitPrompt(c)
        \/ ApplyRule(c)
        \/ Respond(c)

SpecConcurrent == InitFlow /\ [][NextConcurrent]_vars

-----------------------------------------------------------------------------
(* simple_rule_engine as a function of any prompt *)

\* the string literals tested at lines 103-154, in the order of the tests
Matchers ==
    <<<<"b","u","l","l","e","t"," ","p","o","i","n","t","s">>,
      <<"s","h","o","r","t"," ","a","n","d"," ","c","r","i","s","p">>,
      <<"e","x","p","l","a","i","n"," ","t","h","e"," ","f","o","l","l","o","w","i","n","g"," ","n","o",
        "t","e"," ","l","i","k","e"," ","i"," ","a","m"," ","5">>,
      <<"f","l","a","s","h","c","a","r","d","s">>,
      <<"m","c","q","s">>,
      <<"s","h","o","r","t"," ","a","n","s","w","e","r"," ","q","u","e","s","t","i","o","n","s">>,
      <<"c","h","a","p","t","e","r","s","/","s","e","c","t","i","o","n","s">>,
      <<"m","i","n","d","m","a","p">>,
      <<"g","e","n","e","r","a","t","e"," ","3","ENDASH","6"," ","t","o","p","i","c"," ","t","a","g","s">>,
      <<"s","t","u","d","y"," ","p","l","a","n">>,
      <<"c","o","m","p","a","r","e"," ","t","h","e","s","e"," ","t","w","o"," ","n","o","t","e","s">>,
      <<"c","l","e","a","n"," ","a","n","d"," ","f","o","r","m","a","t"," ","t","h","i","s"," ","s","p",
        "e","e","c","h"," ","t","r","a","n","s","c","r","i","p","t">>,
      <<"e","x","t","r","a","c","t"," ","m","a","i","n"," ","i","d","e","a","s">>,
      <<"s","u","m","m","a","r","i","z","e"," ","t","h","i","s"," ","n","o","t","e">>,
      <<"r","e","w","r","i","t","e"," ","a","n","d"," ","i","m","p","r","o","v","e">>>>

\* headers: a matcher alone, two matchers in either order, the first line of
\* each template, and two lines that hold no matcher
Headers ==
    {Matchers[i] : i \in DOMAIN Matchers}
    \cup {Matchers[i] \o <<" ">> \o Matchers[j] :
            i \in DOMAIN Matchers, j \in DOMAIN Matchers}
    \cup {Lines(FLOW_PROMPTS[f])[1] : f \in DOMAIN FLOW_PROMPTS}
    \cup {<<"h","e","l","l","o"," ","t","h","e","r","e">>, <<"B","u","l","l","e","t","-","p","o","i","n","t","s",","," ","s","h","o","r","t","l","y">>}

DispatchPrompts ==
    {h \o <<"\n">> \o b : h \in Headers, b \in {<<>>, <<"O","n","e","."," ","T","w","o">>}}

\* a text of n characters "x", with a space at position k (none when k = 0)
Filler(n, k) == [i \in 1..n |-> IF i = k THEN " " ELSE "x"]

\* bodies whose length lies within MaxPad of the two truncation lengths, and
\* one of 300 characters
LongBodies ==
    {Filler(n, k) : n \in (CrispCut - MaxPad)..(CrispCut + MaxPad),
                    k \in {0, CrispCut - 1, CrispCut, CrispCut + 1}}
    \cup {Filler(n, 0) : n \in (SummaryCut - MaxPad)..(SummaryCut + MaxPad)}
    \cup {Filler(300, 7)}

CutPrompts ==
    {h \o <<"\n">> \o b :
        h \in {<<"C","r","e","a","t","e"," ","a"," ","s","h","o","r","t"," ","a","n","d"," ","c","r","i","s","p",
                 " ","v","e","r","s","i","o","n"," ","o","f"," ","t","h","i","s",":">>,
               <<"S","u","m","m","a","r","i","z","e"," ","t","h","i","s"," ","n","o","t","e"," ","c","l","e","a",
                 "r","l","y"," ","a","n","d"," ","s","i","m","p","l","y",":">>,
               <<"a"," ","s","h","o","r","t"," ","a","n","d"," ","c","r","i","s","p"," ","l","i","s","t"," ","o",
                 "f"," ","b","u","l","l","e","t"," ","p","o","i","n","t","s">>},
        b \in LongBodies}

\* words a tag body is made of
TagVocabulary ==
    {<<"h","e","l","l","o">>, <<"H","e","l","l","o",",">>, <<"a","b","c",",",".">>, <<"w","o","r","l","d">>, <<";",";",";",";",";">>, <<"t","i","n","y">>}

RECURSIVE WordLists(_)
WordLists(n) ==
    IF n = 0 THEN {<<>>}
    ELSE WordLists(n - 1)
         \cup {Append(ws, w) : ws \in WordLists(n - 1), w \in TagVocabulary}

TagPrompts ==
    {<<"G","e","n","e","r","a","t","e"," ","3","ENDASH","6"," ","t","o","p","i","c"," ","t","a","g","s"," ",
       "f","o","r"," ","t","h","i","s"," ","n","o","t","e",":","\n">> \o Join(ws, <<" ">>) :
        ws \in WordLists(MaxWords)}
    \cup {<<"G","e","n","e","r","a","t","e"," ","3","ENDASH","6"," ","t","o","p","i","c"," ","t","a","g","s"," ",
            "f","o","r"," ","t","h","i","s"," ","n","o","t","e",":","\n","P","h","o","t","o","s","y","n","t",
            "h","e","s","i","s"," ","c","o","n","v","e","r","t","s"," ","s","u","n","l","i","g","h","t"," ",
            "e","n","e","r","g","y"," ","i","n","t","o"," ","g","l","u","c","o","s","e"," ","i","n","s","i",
            "d","e"," ","p","l","a","n","t"," ","c","e","l","l","s">>,
          <<"g","e","n","e","r","a","t","e"," ","3","ENDASH","6"," ","t","o","p","i","c"," ","t","a","g","s"," ",
            "a","s"," ","a"," ","m","i","n","d","m","a","p","\n","h","e","l","l","o"," ","w","o","r","l","d">>}

EdgePrompts ==
    {<<>>, <<" ">>, <<"\n">>, <<" ","\n","\t","\n">>, <<"h","e","l","l","o">>, <<" "," ","h","e","l","l","o"," "," ">>,
     <<"h","e","l","l","o","\n","w","o","r","l","d">>, <<"\n","\n"," ","h","e","l","l","o"," ","\r","\n"," ","w","o","r","l","d"," ","\n","\n"," ","a","g","a",
                                                         "i","n","\n">>,
     <<"T","u","r","n"," ","t","h","i","s"," ","i","n","t","o"," ","c","l","e","a","n"," ","b","u","l",
       "l","e","t"," ","p","o","i","n","t","s",":","\n","F","i","r","s","t"," ","i","d","e","a","."," ",
       "S","e","c","o","n","d"," ","i","d","e","a","."," ","T","h","i","r","d"," ","i","d","e","a",".">>,
     <<"f","l","a","s","h","c","a","r","d","s","\n",".",".",".">>}

EnginePrompts == DispatchPrompts \cup CutPrompts \cup TagPrompts \cup EdgePrompts

InitEngine ==
    /\ Fresh
    /\ pc = [c \in Callers |-> IF c = 1 THEN "split" ELSE "idle"]
    /\ \E p \in EnginePrompts : prompt = [c \in Callers |-> IF c = 1 THEN p ELSE <<>>]

NextEngine == SplitPrompt(1) \/ ApplyRule(1)

SpecEngine == InitEngine /\ [][NextEngine]_vars

-----------------------------------------------------------------------------
(* save_note and memory_recall, src/main.py lines 179-222, over the           *)
(* saved_notes collection of the document store (database.py)                 *)

\* class SaveNoteRequest (lines 33-36); tags play no part in recall
SaveNoteRequest(o, p) == [original_note |-> o, processed_note |-> p]

\* create_document("saved_notes", doc): the document is appended under a new id
create_document(coll, doc) ==
    Append(coll, [id |-> Len(coll) + 1,
                  original_note |-> doc.original_note,
                  processed_note |-> doc.processed_note])

\* get_documents("saved_notes", {}, limit): the first `limit` documents, in
\* insertion order
get_documents(coll, limit) == Take(coll, limit)

\* lines 215-217
score(n, query) ==
    Count(Lower(n.original_note \o <<" ">> \o n.processed_note), Lower(query))

\* [score(n) for n in docs]; the concatenation makes the list a plain sequence
Scores(docs, query) == <<>> \o [i \in 1..Len(docs) |-> score(docs[i], query)]

\* a wrong sort: documents of equal key come out in reverse input order
Place_unstable(key, i) ==
    1 + Cardinality({j \in 1..Len(key) : key[j] > key[i]})
      + Cardinality({j \in (i + 1)..Len(key) : key[j] = key[i]})

\* where sorted(..., reverse=True) puts the i-th document: behind every
\* document of greater key and behind the earlier documents of equal key (the
\* sort is stable, and reverse=True keeps the input order of equal keys)
Place(key, i) ==
    1 + Cardinality({j \in 1..Len(key) : key[j] > key[i]})
      + Cardinality({j \in 1..(i - 1) : key[j] = key[i]})

\* the documents arranged by their places
Arrange(docs, key) ==
    <<>> \o [p \in 1..Len(docs) |->
              docs[CHOOSE i \in 1..Len(docs) : Place(key, i) = p]]

\* line 218: sorted(notes, key=score, reverse=True)
SortedDesc(docs, query) == Arrange(docs, Scores(docs, query))

\* line 219: one digest line
SummaryLine(n) ==
    <<"-"," ">>
    \o Take(IF Len(n.processed_note) > 0 THEN n.processed_note ELSE n.original_note,
            DigestCut)
    \o <<".",".",".">>

\* lines 181-189: the document is stored and its id returned
save_note(r) ==
    /\ Len(notes) < MaxNotes
    /\ notes' = create_document(notes, r)
    /\ recall' = [NoRecall EXCEPT !.op = "save_note", !.status = 200,
                                  !.id = Len(notes) + 1]
    /\ UNCHANGED <<registry, pc, req, prompt, lines, header, body, rule,
                   output, response>>

\* lines 190-191 and 221-222: the store raised, the handler answers 500
store_fails(op) ==
    /\ recall' = [NoRecall EXCEPT !.op = op, !.status = 500]
    /\ UNCHANGED <<registry, pc, req, prompt, lines, header, body, rule,
                   output, response, notes>>

\* lines 213-220
memory_recall(query) ==
    \E top \in {Take(SortedDesc(get_documents(notes, FetchLimit), query), TopK)} :
        /\ recall' = [op |-> "memory_recall", status |-> 200, query |-> query,
                      id |-> 0,
                      scores |-> Scores(top, query),
                      top |-> top,
                      summary |-> Join([i \in 1..Len(top) |-> SummaryLine(top[i])],
                                       <<"\n">>),
                      matches |-> [i \in 1..Len(top) |-> Str(top[i].id)]]
        /\ UNCHANGED <<registry, pc, req, prompt, lines, header, body, rule,
                       output, response, notes>>

\* documents saved and queries asked
SaveRequests ==
    {SaveNoteRequest(<<"C","a","t","s"," ","p","u","r","r">>, <<>>),
     SaveNoteRequest(<<"d","o","g","s">>, <<"a"," ","c","a","t",","," ","a"," ","C","A","T">>),
     SaveNoteRequest(<<>>, <<"a","a","a"," ","c","a","t">>)}

RecallQueries == {<<>>, <<"c","a","t">>, <<"C","A","T","S">>, <<"a","a">>}

InitRecall ==
    /\ Fresh
    /\ pc = [c \in Callers |-> "idle"]
    /\ prompt = [c \in Callers |-> <<>>]

NextRecall ==
    \/ \E r \in SaveRequests : save_note(r)
    \/ \E q \in RecallQueries : memory_recall(q)
    \/ \E op \in {"save_note", "memory_recall"} : store_fails(op)

SpecRecall == InitRecall /\ [][NextRecall]_vars

-----------------------------------------------------------------------------
(* Properties of the flow-execution endpoint *)

\* the 16 flow identifiers of the specification
KnownFlows ==
    {"summarize", "rewrite", "bullet_points", "short_version", "eli5",
     "flashcards", "mcqs", "short_questions", "chapter_summary", "mindmap",
     "smart_tags", "study_plan", "compare_notes", "voice_cleanup",
     "pdf_extract_summary", "memory_recall"}

(* C1: a request whose flow id is not one of the 16 keys ends in the       *)
(* "Unknown flow" client error (status 400), and it never reaches the      *)
(* placeholder resolution or the transform: it is only ever waiting for    *)
(* the membership test or rejected, no template was fetched, no line was   *)
(* split, no rule applied and no output text produced.                     *)
C1_UnknownFlowRejectedFirst ==
    \A c \in Callers :
        (pc[c] # "idle" /\ req[c].flow \notin KnownFlows) =>
            /\ pc[c] \in {"check", "error"}
            /\ prompt[c] = <<>>
            /\ lines[c] = <<>>
            /\ rule[c] = ""
            /\ output[c] = <<>>
            /\ response[c].output = <<>>
            /\ (pc[c] = "check" => response[c] = NoResponse)
            /\ (pc[c] = "error" =>
                  /\ response[c].status = 400
                  /\ response[c].detail = "Unknown flow")

\* a flow id that differs from a key only by case has been rejected
C1_Witness ==
    \E c \in Callers :
        /\ pc[c] = "error"
        /\ req[c].flow = "Summarize"
        /\ req[c].user_note.some
        /\ response[c].status = 400

\* the seven slots and their placeholder tokens, in the order of lines 167-173
Slots ==
    <<[name |-> "user_note", token |-> <<"{","{","u","s","e","r","_","n","o","t","e","}","}">>],
      [name |-> "user_syllabus", token |-> <<"{","{","u","s","e","r","_","s","y","l","l","a","b","u","s","}","}">>],
      [name |-> "note1", token |-> <<"{","{","n","o","t","e","1","}","}">>],
      [name |-> "note2", token |-> <<"{","{","n","o","t","e","2","}","}">>],
      [name |-> "voice_text", token |-> <<"{","{","v","o","i","c","e","_","t","e","x","t","}","}">>],
      [name |-> "pdf_text", token |-> <<"{","{","p","d","f","_","t","e","x","t","}","}">>],
      [name |-> "query", token |-> <<"{","{","q","u","e","r","y","}","}">>]>>

\* the template with every placeholder occurrence replaced at once: the
\* template is read from left to right, from one placeholder to the next,
\* and a substituted value is never read
RECURSIVE LiteralFrom(_, _, _)
LiteralFrom(t, r, i) ==
    LET at == {k \in i..Len(t) : \E s \in DOMAIN Slots : OccursAt(Slots[s].token, t, k)}
    IN  IF at = {} THEN SubSeq(t, i, Len(t))
        ELSE LET k == Min(at)
                 s == CHOOSE s \in DOMAIN Slots : OccursAt(Slots[s].token, t, k)
             IN  SubSeq(t, i, k - 1) \o OrEmpty(r[Slots[s].name])
                 \o LiteralFrom(t, r, k + Len(Slots[s].token))

LiteralResolve(t, r) == LiteralFrom(t, r, 1)

(* C2: placeholder resolution treats substituted values as literal text:   *)
(* for every template and every assignment of the seven inputs, the        *)
(* resolved instruction is the template with each placeholder occurrence   *)
(* replaced at once by its input value (empty when absent); a token that   *)
(* arrives inside a substituted value is never replaced.                   *)
C2_SubstitutionIsLiteral ==
    \A c \in Callers :
        pc[c] = "split" =>
            prompt[c] = LiteralResolve(FLOW_PROMPTS[req[c].flow], req[c])

\* the rule each flow's own template selects
C10_RuleOfFlow ==
    [f \in KnownFlows |->
        CASE f = "summarize" -> "summarize"
          [] f = "rewrite" -> "rewrite"
          [] f = "bullet_points" -> "bullet points"
          [] f = "short_version" -> "short and crisp"
          [] f = "eli5" -> "explain like i am 5"
          [] f = "flashcards" -> "flashcards"
          [] f = "mcqs" -> "mcqs"
          [] f = "short_questions" -> "short answer questions"
          [] f = "chapter_summary" -> "chapters/sections"
          [] f = "mindmap" -> "mindmap"
          [] f = "smart_tags" -> "topic tags"
          [] f = "study_plan" -> "study plan"
          [] f = "compare_notes" -> "compare"
          [] f = "voice_cleanup" -> "transcript cleanup"
          [] f = "pdf_extract_summary" -> "extract main ideas"
          [] f = "memory_recall" -> "none"]

\* some matcher string occurs in the lowercased text
HoldsMatcher(t) == \E i \in DOMAIN Matchers : Contains(Matchers[i], Lower(t))

C7_CallsAreIndependent ==
    /\ registry = FLOW_PROMPTS
    /\ DOMAIN registry = KnownFlows
    /\ \A c \in Callers :
          /\ pc[c] = "done" =>
               /\ response[c].status = 200
               /\ response[c].output
                    = simple_rule_engine(
                          Interpolate(FLOW_PROMPTS[req[c].flow], req[c])).out
          /\ pc[c] = "error" => response[c].output = <<>>

\* two callers with different requests have both been answered, each with
\* its own output
C7_Witness ==
    \E c, d \in Callers :
        /\ c # d
        /\ pc[c] = "done" /\ pc[d] = "done"
        /\ req[c].flow = "bullet_points" /\ req[d].flow = "memory_recall"
        /\ req[d].query.some
        /\ response[c].output # response[d].output

-----------------------------------------------------------------------------
(* Properties of the heuristic transform *)

\* the table of matchers and rules, in priority order
RuleTable ==
    <<[matcher |-> <<"b","u","l","l","e","t"," ","p","o","i","n","t","s">>, rule |-> "bullet points"],
      [matcher |-> <<"s","h","o","r","t"," ","a","n","d"," ","c","r","i","s","p">>, rule |-> "short and crisp"],
      [matcher |-> <<"e","x","p","l","a","i","n"," ","t","h","e"," ","f","o","l","l","o","w","i","n","g"," ","n","o",
                     "t","e"," ","l","i","k","e"," ","i"," ","a","m"," ","5">>,
       rule |-> "explain like i am 5"],
      [matcher |-> <<"f","l","a","s","h","c","a","r","d","s">>, rule |-> "flashcards"],
      [matcher |-> <<"m","c","q","s">>, rule |-> "mcqs"],
      [matcher |-> <<"s","h","o","r","t"," ","a","n","s","w","e","r"," ","q","u","e","s","t","i","o","n","s">>, rule |-> "short answer questions"],
      [matcher |-> <<"c","h","a","p","t","e","r","s","/","s","e","c","t","i","o","n","s">>, rule |-> "chapters/sections"],
      [matcher |-> <<"m","i","n","d","m","a","p">>, rule |-> "mindmap"],
      [matcher |-> <<"g","e","n","e","r","a","t","e"," ","3","ENDASH","6"," ","t","o","p","i","c"," ","t","a","g","s">>, rule |-> "topic tags"],
      [matcher |-> <<"s","t","u","d","y"," ","p","l","a","n">>, rule |-> "study plan"],
      [matcher |-> <<"c","o","m","p","a","r","e"," ","t","h","e","s","e"," ","t","w","o"," ","n","o","t","e","s">>, rule |-> "compare"],
      [matcher |-> <<"c","l","e","a","n"," ","a","n","d"," ","f","o","r","m","a","t"," ","t","h","i","s"," ","s","p",
                     "e","e","c","h"," ","t","r","a","n","s","c","r","i","p","t">>,
       rule |-> "transcript cleanup"],
      [matcher |-> <<"e","x","t","r","a","c","t"," ","m","a","i","n"," ","i","d","e","a","s">>, rule |-> "extract main ideas"],
      [matcher |-> <<"s","u","m","m","a","r","i","z","e"," ","t","h","i","s"," ","n","o","t","e">>, rule |-> "summarize"],
      [matcher |-> <<"r","e","w","r","i","t","e"," ","a","n","d"," ","i","m","p","r","o","v","e">>, rule |-> "rewrite"]>>

\* the entries of the table whose matcher is a substring of the lowercased header
Matching(h) ==
    {i \in DOMAIN RuleTable : Contains(RuleTable[i].matcher, Lower(h))}

(* C3: the transform dispatches by first match in the fixed priority order *)
(* of the table: the rule applied is that of the earliest matcher that is  *)
(* a substring of the lowercased header, also when later matchers occur in *)
(* the header; when no matcher occurs, the output is the body unchanged    *)
(* (with two or more lines: the lines after the header joined by newline). *)
C3_FirstMatchWins ==
    \A c \in Callers :
        pc[c] = "return" =>
            IF Matching(header[c]) = {}
            THEN /\ rule[c] = "none"
                 /\ output[c] = body[c]
                 /\ Len(lines[c]) > 1 => output[c] = Join(Tail(lines[c]), <<"\n">>)
            ELSE rule[c] = RuleTable[Min(Matching(header[c]))].rule

\* a header that reads "summarize this note" before "flashcards" was given
\* the flashcards rule, which comes first in the table
C3_Witness ==
    \E c \in Callers :
        /\ pc[c] = "return"
        /\ header[c] = <<"s","u","m","m","a","r","i","z","e"," ","t","h","i","s"," ","n","o","t","e"," ","f","l","a","s",
                         "h","c","a","r","d","s">>
        /\ Cardinality(Matching(header[c])) = 2
        /\ rule[c] = "flashcards"
        /\ output[c] = <<"T","e","r","m"," ","1",":"," ","O","n","e","\n","D","e","f","i","n","i","t","i","o","n",":"," ",
                         "O","n","e","\n","T","e","r","m"," ","2",":"," ","T","w","o","\n","D","e","f","i","n","i","t","i",
                         "o","n",":"," ","T","w","o">>

\* the text without its whitespace
Squeeze(t) == SelectSeq(t, LAMBDA ch : ch \notin Whitespace)

(* C9: the instruction is split into its trimmed non-empty lines; with two *)
(* or more lines the header is the first line and the body the remaining   *)
(* lines joined by newline; with exactly one line that line is both the    *)
(* header and the body; with no line header, body and output are empty.    *)
C9_HeaderBodySplit ==
    \A c \in Callers :
        pc[c] \in {"dispatch", "return"} =>
            /\ \A i \in DOMAIN lines[c] :
                  /\ Len(lines[c][i]) > 0
                  /\ lines[c][i][1] \notin Whitespace
                  /\ lines[c][i][Len(lines[c][i])] \notin Whitespace
                  /\ \A k \in DOMAIN lines[c][i] : lines[c][i][k] \notin LineBreaks
            /\ Squeeze(Join(lines[c], <<>>)) = Squeeze(prompt[c])
            /\ Len(lines[c]) >= 2 =>
                  /\ header[c] = lines[c][1]
                  /\ body[c] = Join(Tail(lines[c]), <<"\n">>)
            /\ Len(lines[c]) = 1 =>
                  /\ header[c] = lines[c][1]
                  /\ body[c] = lines[c][1]
            /\ Len(lines[c]) = 0 =>
                  /\ header[c] = <<>>
                  /\ body[c] = <<>>
                  /\ pc[c] = "return" => output[c] = <<>>

\* the summarize template with an empty note: its only line is the header
\* that selects the rule and the body the rule is applied to
C9_Witness ==
    \E c \in Callers :
        /\ pc[c] = "return"
        /\ prompt[c] = <<"S","u","m","m","a","r","i","z","e"," ","t","h","i","s"," ","n","o","t","e"," ","c","l","e","a",
                         "r","l","y"," ","a","n","d"," ","s","i","m","p","l","y",":","\n">>
        /\ Len(lines[c]) = 1
        /\ body[c] = header[c]
        /\ output[c] = <<"S","u","m","m","a","r","y",":"," ","S","u","m","m","a","r","i","z","e"," ","t","h","i","s"," ",
                         "n","o","t","e"," ","c","l","e","a","r","l","y"," ","a","n","d"," ","s","i","m","p","l","y",":">>

(* C8 as claimed: whenever the header contains "short and crisp", a body   *)
(* longer than 220 characters gives its first 220 characters followed by   *)
(* the one-character ellipsis marker (221 characters), and a body of at    *)
(* most 220 characters gives the body itself.                              *)
C8_CrispWhenever ==
    \A c \in Callers :
        (pc[c] = "return" /\ Contains(<<"s","h","o","r","t"," ","a","n","d"," ","c","r","i","s","p">>, Lower(header[c]))) =>
            IF Len(body[c]) > 220
            THEN /\ output[c] = SubSeq(body[c], 1, 220) \o <<"ELLIPSIS">>
                 /\ Len(output[c]) = 221
            ELSE output[c] = body[c]

(* C8 as amended: whenever the header contains "short and crisp" and does  *)
(* not contain "bullet points", the one matcher tested before it, a body   *)
(* longer than 220 characters gives its first 220 characters followed by   *)
(* the ellipsis marker (221 characters), and a body of at most 220         *)
(* characters gives the body itself.                                       *)
C8_CrispWhenFirstMatch ==
    \A c \in Callers :
        (/\ pc[c] = "return"
         /\ Contains(<<"s","h","o","r","t"," ","a","n","d"," ","c","r","i","s","p">>, Lower(header[c]))
         /\ ~Contains(<<"b","u","l","l","e","t"," ","p","o","i","n","t","s">>, Lower(header[c]))) =>
            IF Len(body[c]) > 220
            THEN /\ output[c] = SubSeq(body[c], 1, 220) \o <<"ELLIPSIS">>
                 /\ Len(output[c]) = 221
            ELSE output[c] = body[c]

\* a body of 300 characters was cut to 221
C8_Witness ==
    \E c \in Callers :
        /\ pc[c] = "return"
        /\ header[c] = <<"C","r","e","a","t","e"," ","a"," ","s","h","o","r","t"," ","a","n","d"," ","c","r","i","s","p",
                         " ","v","e","r","s","i","o","n"," ","o","f"," ","t","h","i","s",":">>
        /\ Len(body[c]) = 300
        /\ Len(output[c]) = 221
        /\ output[c][221] = "ELLIPSIS"

\* the punctuation stripped from around a word
TagPunctuation == {",", ".", ":", ";", "!", "\""}

\* the words of the body, stripped of surrounding punctuation and lowercased
CleanWords(b) ==
    [i \in 1..Len(SplitWords(b)) |->
        Lower(StripChars(SplitWords(b)[i], TagPunctuation))]

\* the tags listed in an output: its ", "-separated items
ListedTags(out) ==
    [i \in 1..Len(SplitWords(out)) |->
        IF i < Len(SplitWords(out))
        THEN SubSeq(SplitWords(out)[i], 1, Len(SplitWords(out)[i]) - 1)
        ELSE SplitWords(out)[i]]

\* where a word first appears among the clean words of the body
FirstAt(w, ws) == Min({i \in DOMAIN ws : ws[i] = w})

(* C6: topic-tags rule, for headers that contain "generate 3-6 topic tags" *)
(* (and no matcher tested before it, so that the rule is the one applied): *)
(* the output is the fallback "general, study" exactly when the body has   *)
(* no word longer than 4 characters after its surrounding punctuation is   *)
(* stripped; otherwise it is a ", "-joined list of at most 6 pairwise      *)
(* distinct lowercase words of the body, each longer than 4 characters     *)
(* after stripping, in the order of first appearance.                      *)
C6_TagsAreLongWords ==
    \A c \in Callers :
        (/\ pc[c] = "return"
         /\ Matching(header[c]) # {}
         /\ RuleTable[Min(Matching(header[c]))].rule = "topic tags") =>
            LET ws == CleanWords(body[c])
                tags == ListedTags(output[c])
            IN  IF \A i \in DOMAIN ws : Len(ws[i]) <= 4
                THEN output[c] = <<"g","e","n","e","r","a","l",","," ","s","t","u","d","y">>
                ELSE /\ output[c] # <<"g","e","n","e","r","a","l",","," ","s","t","u","d","y">>
                     /\ output[c] = Join(tags, <<","," ">>)
                     /\ Len(tags) <= 6
                     /\ \A i \in DOMAIN tags :
                           /\ Len(tags[i]) > 4
                           /\ tags[i] = Lower(tags[i])
                           /\ \E k \in DOMAIN ws : ws[k] = tags[i]
                     /\ \A i, j \in DOMAIN tags :
                           i < j => /\ tags[i] # tags[j]
                                    /\ FirstAt(tags[i], ws) < FirstAt(tags[j], ws)

-----------------------------------------------------------------------------
(* Properties of recall *)

\* the positions where sub occurs in s
Occurrences(sub, s) == {k \in 1..Len(s) : OccursAt(sub, s, k)}

\* the number of non-overlapping case-insensitive occurrences of the query in
\* original_note + " " + processed_note: the most occurrences that can be
\* picked no two of which overlap (for the empty query, every position of
\* the text and its end, as str.count counts)
Relevance(n, query) ==
    LET text == Lower(n.original_note \o <<" ">> \o n.processed_note)
        q == Lower(query)
        occ == Occurrences(q, text)
    IN  IF Len(q) = 0 THEN Len(text) + 1
        ELSE CHOOSE m \in 0..Cardinality(occ) :
               /\ \E P \in SUBSET occ :
                     /\ Cardinality(P) = m
                     /\ \A a, b \in P : a < b => a + Len(q) <= b
               /\ \A P \in SUBSET occ :
                     (\A a, b \in P : a < b => a + Len(q) <= b) => Cardinality(P) <= m

\* document a comes before document b in the stable descending order
Before(a, b, query) ==
    \/ Relevance(a, query) > Relevance(b, query)
    \/ Relevance(a, query) = Relevance(b, query) /\ a.id < b.id

(* C4: recall lists documents in non-increasing order of score, documents  *)
(* of equal score in their input order, and the result is exactly the      *)
(* first min(5, number of documents) documents of that ordering: every     *)
(* document left out comes after every document listed.                    *)
C4_RecallRanking ==
    (recall.op = "memory_recall" /\ recall.status = 200) =>
        LET top == recall.top
            q == recall.query
        IN  /\ Len(top) = (IF Len(notes) < 5 THEN Len(notes) ELSE 5)
            /\ \A i \in DOMAIN top :
                  /\ top[i].id \in DOMAIN notes
                  /\ notes[top[i].id] = top[i]
                  /\ recall.scores[i] = Relevance(top[i], q)
                  /\ recall.matches[i] = Str(top[i].id)
            /\ \A i, j \in DOMAIN top :
                  i < j => /\ recall.scores[i] >= recall.scores[j]
                           /\ Before(top[i], top[j], q)
            /\ \A k \in DOMAIN notes :
                  (\A i \in DOMAIN top : top[i].id # k) =>
                      \A i \in DOMAIN top : Before(top[i], notes[k], q)

\* six documents recalled: two scores among the five listed, two listed
\* documents tie, and the document left out ties with the last one listed
C4_Witness ==
    /\ recall.op = "memory_recall"
    /\ recall.status = 200
    /\ Len(notes) = 6
    /\ Len(recall.top) = 5
    /\ recall.scores[1] > recall.scores[5]
    /\ recall.scores[4] = recall.scores[5]
    /\ \E k \in DOMAIN notes :
          /\ \A i \in DOMAIN recall.top : recall.top[i].id # k
          /\ Relevance(notes[k], recall.query) = recall.scores[5]

(* C5: recall with an empty query, or with no document saved, yields an    *)
(* empty result list and an empty digest, and is not an error.             *)
C5_EmptyRecallIsEmpty ==
    (/\ recall.op = "memory_recall"
     /\ recall.status = 200
     /\ (Len(recall.query) = 0 \/ Len(notes) = 0)) =>
        /\ recall.matches = <<>>
        /\ recall.summary = <<>>

====
